---- MODULE Spec2Model ----
(***************************************************************************)
(* A model of the ANPR access-control pipeline: main() of main.py (startup *)
(* gate, frame loop, per-plate cooldown, exit paths) and ANPRDatabase of   *)
(* src/database.py (registry, access log, raw-detection log, JSON ledger). *)
(* Spec is one camera pipeline with its restarts, SpecDb a client calling  *)
(* ANPRDatabase directly, SpecLedger several processes and an editor on    *)
(* one vehicles.db.json.                                                   *)
(*                                                                         *)
(* Strings that the code transforms (plates, OCR readings) are sequences   *)
(* of one-character strings, so that normalisation is computed character   *)
(* by character.  Time is in seconds, confidences are in tenths.           *)
(***************************************************************************)
EXTENDS Integers, Sequences, FiniteSets, TLC

\* ------------------------------------------------------------------ bounds
\* Last instant of the clock.
MaxTime == 11
\* Vehicles returned by detect_vehicles for one frame.
MaxVehicles == 1
\* Writes of data/gps_state.json by the location server.
MaxGpsWrites == 2
\* Rows of access_logs (and of all_detections).
MaxRows == 2
\* Calls of add_authorized_vehicle by a client of ANPRDatabase.
MaxCalls == 3

\* ------------------------------------------------------- program constants
\* LOG_COOLDOWN, seconds.
LOG_COOLDOWN == 10
\* `conf > 0.3', in tenths.
OcrConfThreshold == 3
\* `len(clean_text) > 3'.
MinPlateLen == 3

\* ----------------------------------------------------------------- strings
LowerChars == <<"a","b","c","d","e","f","g","h","i","j","k","l","m",
                "n","o","p","q","r","s","t","u","v","w","x","y","z">>
UpperChars == <<"A","B","C","D","E","F","G","H","I","J","K","L","M",
                "N","O","P","Q","R","S","T","U","V","W","X","Y","Z">>
DigitChars == {"0","1","2","3","4","5","6","7","8","9"}

LowerToUpper ==
    [c \in {LowerChars[i] : i \in 1..Len(LowerChars)} |->
        UpperChars[CHOOSE i \in 1..Len(LowerChars) : LowerChars[i] = c]]
PlateChars == DigitChars \cup {UpperChars[i] : i \in 1..Len(UpperChars)}

\* str.upper() on one character.
UpperChar(c) == IF c \in DOMAIN LowerToUpper THEN LowerToUpper[c] ELSE c

\* str.upper()
Upper(s) == [i \in 1..Len(s) |-> UpperChar(s[i])]

\* str.replace(' ', '')
RemoveSpaces(s) == SelectSeq(s, LAMBDA c : c # " ")

\* A mutant of Normalize: the plate is used as given.
NormalizeRaw(plate_number) == plate_number

\* clean_plate = plate_number.replace(' ', '').upper()
Normalize(plate_number) == Upper(RemoveSpaces(plate_number))

\* The absent owner (Python's None) and a present one.
None == <<>>
Some(x) == <<x>>

\* ---------------------------------------------------------------- the state
VARIABLES
    registry,     \* table authorized_vehicles: a set of rows
    accessLog,    \* table access_logs: the rows in id order
    detections,   \* table all_detections: the rows in id order
    ledger,       \* data/vehicles.db.json: missing, corrupt or the list
    gps,          \* data/gps_state.json: missing, malformed or a sample
    gpsMtime,     \* modification stamp of gps_state.json (0: never written)
    clock,        \* the wall clock, seconds
    pc,           \* position of main(): "off", "waiting", "opening", "loop", "frame"; "api" for a client of ANPRDatabase; "ledger" for the users of one ledger
    initial_mtime,\* main's local initial_mtime
    last_log_time,\* main's local last_log_time: plate -> time
    pending,      \* vehicles of the current frame not yet processed
    outcome,      \* how far the last processed vehicle got, and its text
    raised,       \* the exception that ended main(), "none" if none
    exitStatus,   \* exit status of the last run: "none", "0", "1"
    ret,          \* the last call of a client of ANPRDatabase and its result
    addCalls,     \* history: the add_authorized_vehicle calls made, in order
    logBase,      \* history: Len(accessLog) when the current run started
    called,       \* history: the collaborators called for the last vehicle
    held,         \* the resources main() has acquired and not released
    inflight      \* per process: the _log_to_json call it is in, if any

vars == <<registry, accessLog, detections, ledger, gps, gpsMtime, clock, pc,
          initial_mtime, last_log_time, pending, outcome, raised,
          exitStatus, ret, addCalls, logBase, called, held, inflight>>

dbVars == <<registry, accessLog, detections, ledger>>

\* ------------------------------------------------------ ANPRDatabase: registry
\* SELECT owner_name FROM authorized_vehicles WHERE plate_number = key
SelectOwner(reg, key) == {r \in reg : r.plate_number = key}

\* A mutant of IsAuthorizedIn: the lookup does not normalise its argument.
IsAuthorizedInRaw(reg, plate_number) ==
    LET result == SelectOwner(reg, plate_number)
    IN  IF result # {}
        THEN <<TRUE, Some((CHOOSE r \in result : TRUE).owner_name)>>
        ELSE <<FALSE, None>>

\* A mutant of RegistryAfterLookup: a plate not found is registered.
RegistryAfterLookupCreates(reg, plate_number) ==
    IF \E r \in reg : r.plate_number = Normalize(plate_number) THEN reg
    ELSE reg \cup {[plate_number |-> Normalize(plate_number),
                    owner_name |-> "Unknown"]}

\* is_authorized executes one SELECT and nothing else: the table afterwards.
RegistryAfterLookup(reg, plate_number) == reg

\* A mutant of IsAuthorizedIn: every plate is taken as authorized.
IsAuthorizedInAny(reg, plate_number) == <<TRUE, Some("Unknown")>>

\* is_authorized: (True, owner_name) or (False, None).
IsAuthorizedIn(reg, plate_number) ==
    LET clean_plate == Normalize(plate_number)
        result == SelectOwner(reg, clean_plate)
    IN  IF result # {}
        THEN <<TRUE, Some((CHOOSE r \in result : TRUE).owner_name)>>
        ELSE <<FALSE, None>>

\* A mutant of AddVehicleIn: INSERT OR REPLACE, a duplicate key overwrites.
AddVehicleInReplace(reg, plate_number, owner_name) ==
    LET clean_plate == Normalize(plate_number)
    IN  [reg |-> {r \in reg : r.plate_number # clean_plate}
                   \cup {[plate_number |-> clean_plate, owner_name |-> owner_name]},
         ok  |-> TRUE]

\* add_authorized_vehicle: the INSERT fails with IntegrityError on a plate
\* that is already a PRIMARY KEY of the table; the table and the returned bool.
AddVehicleIn(reg, plate_number, owner_name) ==
    LET clean_plate == Normalize(plate_number)
    IN  IF \E r \in reg : r.plate_number = clean_plate
        THEN [reg |-> reg, ok |-> FALSE]
        ELSE [reg |-> reg \cup {[plate_number |-> clean_plate,
                                 owner_name |-> owner_name]},
              ok  |-> TRUE]

\* ------------------------------------------------- ANPRDatabase: the ledger
\* The empty string "", and str() of a JSON number.
EmptyStr == <<>>
Str(v) == <<v>>

\* Python truthiness of a value of gps_state.json: a number (0 is false).
Truthy(v) == v # 0

\* gps_state.json: no file, a file that is not a JSON object with the two
\* keys, or a sample (numbers in tenths of a degree).
GpsMissing == [state |-> "missing", lat |-> 0, long |-> 0]
GpsMalformed == [state |-> "malformed", lat |-> 0, long |-> 0]
GpsSample(lat, long) == [state |-> "ok", lat |-> lat, long |-> long]
GpsSamples == {GpsSample(129, 776), GpsSample(0, 776)}

\* vehicles.db.json: no file, a file that is not valid JSON, or the list.
LedgerMissing == [state |-> "missing", data |-> <<>>]
LedgerCorrupt == [state |-> "corrupt", data |-> <<>>]
LedgerOf(data) == [state |-> "ok", data |-> data]

\* A mutant of LedgerLocation: the values are used whatever the file holds.
LedgerLocationUnchecked(g) == [lat |-> Str(g.lat), long |-> Str(g.long)]

\* _log_to_json: lat and long as read from gps_state.json and passed through
\* str(); both stay "" when the file is missing, unreadable, or either value
\* is falsy.
LedgerLocation(g) ==
    IF g.state = "ok" /\ Truthy(g.lat) /\ Truthy(g.long)
    THEN [lat |-> Str(g.lat), long |-> Str(g.long)]
    ELSE [lat |-> EmptyStr, long |-> EmptyStr]

\* _log_to_json: data = [] unless the file exists and is valid JSON.
LoadLedger(led) == IF led.state = "ok" THEN led.data ELSE <<>>

\* next((item for item in data if item["numberPlate"] == plate_number), None):
\* the index of the first such item, 0 if none.
FindProfile(data, plate_number) ==
    IF \E i \in 1..Len(data) : data[i].numberPlate = plate_number
    THEN CHOOSE i \in 1..Len(data) :
            /\ data[i].numberPlate = plate_number
            /\ \A j \in 1..(i-1) : data[j].numberPlate # plate_number
    ELSE 0

\* A mutant of Upsert: a profile is appended on every call.
UpsertAlwaysNew(led, reg, g, plate_number, timestamp) ==
    LET data == LoadLedger(led)
        loc  == LedgerLocation(g)
        loc_entry == [lat |-> loc.lat, long |-> loc.long,
                      timestamp |-> timestamp]
        auth == IsAuthorizedIn(reg, plate_number)
    IN  LedgerOf(Append(data,
                 [ownerName |-> IF auth[2] # None /\ auth[2][1] # ""
                                THEN auth[2][1] ELSE "Unknown",
                  vehicleName |-> "",
                  numberPlate |-> plate_number,
                  locations |-> <<loc_entry>>]))

\* A mutant of Upsert: a plate that has a profile gets no further sample.
UpsertNoAppend(led, reg, g, plate_number, timestamp) ==
    IF FindProfile(LoadLedger(led), plate_number) # 0
    THEN LedgerOf(LoadLedger(led))
    ELSE UpsertAlwaysNew(led, reg, g, plate_number, timestamp)

\* A mutant of Upsert: the new sample replaces the samples of the profile.
UpsertReplaceSamples(led, reg, g, plate_number, timestamp) ==
    LET data == LoadLedger(led)
        i    == FindProfile(data, plate_number)
        new  == UpsertAlwaysNew(LedgerMissing, reg, g, plate_number,
                                timestamp).data[1]
    IN  IF i # 0
        THEN LedgerOf([data EXCEPT ![i].locations = new.locations])
        ELSE LedgerOf(Append(data, new))

\* _log_to_json without a failure: the list written back to the file.
Upsert(led, reg, g, plate_number, timestamp) ==
    LET data == LoadLedger(led)
        i    == FindProfile(data, plate_number)
        loc  == LedgerLocation(g)
        loc_entry == [lat |-> loc.lat, long |-> loc.long,
                      timestamp |-> timestamp]
        auth == IsAuthorizedIn(reg, plate_number)
    IN  IF i # 0
        THEN LedgerOf([data EXCEPT ![i].locations = Append(@, loc_entry)])
        ELSE LedgerOf(Append(data,
                 [ownerName |-> IF auth[2] # None /\ auth[2][1] # ""
                                THEN auth[2][1] ELSE "Unknown",
                  vehicleName |-> "",
                  numberPlate |-> plate_number,
                  locations |-> <<loc_entry>>]))

\* How a write of log_entry may fail: the INSERT or its commit raises
\* ("db"); the ledger file cannot be opened ("ledger_open"); json.dump fails
\* after the file was truncated by open(..., 'w') ("ledger_dump").
WriteFailures == {"none", "db", "ledger_open", "ledger_dump"}

\* log_entry(plate_number, location, confidence): the access log and the
\* ledger afterwards, and the exception it raises ("none" if none).
LogEntry(log, led, reg, g, plate_number, confidence, now, fail) ==
    LET clean_plate == Normalize(plate_number)
        row == [plate_number |-> clean_plate, timestamp |-> now,
                location |-> "Main Gate", confidence |-> confidence,
                image_path |-> None]
    IN  CASE fail = "db" ->
               [accessLog |-> log, ledger |-> led, raised |-> "sqlite3.Error"]
          [] fail = "ledger_open" ->
               [accessLog |-> Append(log, row), ledger |-> led,
                raised |-> "OSError"]
          [] fail = "ledger_dump" ->
               [accessLog |-> Append(log, row), ledger |-> LedgerCorrupt,
                raised |-> "OSError"]
          [] OTHER ->
               [accessLog |-> Append(log, row),
                ledger |-> Upsert(led, reg, g, clean_plate, now),
                raised |-> "none"]

\* log_detection(plate_number, confidence, is_authorized): the row inserted.
DetectionRow(plate_number, confidence, is_authorized, now) ==
    [plate_number |-> Normalize(plate_number), timestamp |-> now,
     confidence |-> confidence, is_authorized |-> is_authorized]

\* --------------------------------------------------------------- OCRSystem
\* re.sub(r'[^A-Z0-9]', '', text.upper())
IsPlateChar(c) == c \in PlateChars
CleanText(text) == SelectSeq(Upper(text), IsPlateChar)

\* The loop of extract_text over results[i..]: the best reading so far is
\* replaced by a longer-than-3, strictly more confident one.
RECURSIVE BestReading(_, _, _)
BestReading(results, i, best) ==
    IF i > Len(results) THEN best
    ELSE LET clean_text == CleanText(results[i].text)
             conf == results[i].conf
         IN  IF Len(clean_text) > MinPlateLen /\ conf > best.conf
             THEN BestReading(results, i + 1, [text |-> clean_text, conf |-> conf])
             ELSE BestReading(results, i + 1, best)

\* extract_text: (None, 0.0) without results, else the best reading; None and
\* "" are both the empty text.
ExtractText(results) ==
    IF Len(results) = 0 THEN [text |-> EmptyStr, conf |-> 0]
    ELSE BestReading(results, 1, [text |-> EmptyStr, conf |-> 0])

\* ------------------------------------------------------------------ inputs
\* The plates main() registers, and one it does not.
PlateAdmin == <<"K","A","0","1","A","B","1","2","3","4">>
PlateOther == <<"K","A","0","1","A","B","5","6","7","8">>
PlateStranger == <<"M","H","1","2","X","Y","9","9","9","9">>

\* What the OCR reader may return for a plate image: lists of (text, prob).
OcrResults ==
    { <<>>,
      << [text |-> PlateAdmin, conf |-> 4] >>,
      << [text |-> <<"k","a","0","1"," ","a","b","1","2","3","4">>, conf |-> 4] >>,
      << [text |-> PlateOther, conf |-> 4] >>,
      << [text |-> PlateStranger, conf |-> 4] >>,
      << [text |-> PlateAdmin, conf |-> 3] >>,
      << [text |-> <<"A","B","1">>, conf |-> 9] >>,
      << [text |-> PlateStranger, conf |-> 3], [text |-> PlateOther, conf |-> 4] >> }

\* What extract_text returns for them.
OcrReadings == {ExtractText(results) : results \in OcrResults}
NoReading == [text |-> EmptyStr, conf |-> 0]

\* What detect_plate may do for a vehicle crop: raise, return (None, None),
\* return a region of at most 10 x 30 pixels, or a larger one.
PlateOutcomes == {"raise", "none", "small", "ok"}

\* The instants at which the clock is observed: 0, then 9 and later.
FrameInstants == {0} \cup 9..MaxTime

\* What a client of ANPRDatabase passes as plate and owner.
ClientPlates == { <<"A","B","C","1","2","3","4">>,
                  <<"a","b","c"," ","1","2","3","4">>,
                  <<"X","Y","9","9">>,
                  <<"X","Y","9","9","\n">> }
ClientOwners == {"John Doe", "Jane Roe"}

\* ----------------------------------------------------------- initial state
NoOutcome == [state |-> "NONE", text |-> EmptyStr]
NoRet == [op |-> "none", plate |-> EmptyStr, owner |-> "", val |-> <<>>]
NoLogTimes == [p \in {} |-> 0]
\* The processes that run log_entry on the same data directory.
MaxWriters == 2
Writers == 1..MaxWriters
Idle == [state |-> "idle", data |-> <<>>, plate_number |-> EmptyStr,
         timestamp |-> 0]

NoCalls == [detect_plate |-> "-", extract_text |-> FALSE,
            is_authorized |-> FALSE]

\* A mutant of FreshLogTimes: the map of the previous run is kept.
KeptLogTimes(times) == times

\* last_log_time = {}
FreshLogTimes(times) == NoLogTimes

\* What main() acquires: the location server's process, the database
\* connection and the camera.
Resources == {"node_process", "db", "cap"}

\* A mutant of Finally: the location server is not killed.
FinallyNoKill(h) == h \ {"cap", "db"}

\* finally: cap.release(), db.close(), node_process.kill()
Finally(h) == h \ {"cap", "db", "node_process"}

\* A mutant of LocationReady: a file that exists is taken as the signal.
LocationReadyStale(g, current_mtime, initial) == g.state # "missing"

\* os.path.exists(gps_state_path) and current_mtime > initial_mtime
LocationReady(g, current_mtime, initial) ==
    IF g.state = "missing" THEN FALSE ELSE current_mtime > initial

\* A mutant of HasPlate: a vehicle without a plate region goes on to OCR.
HasPlateAlways(loc) == TRUE

\* plate_img is not None and p_box is not None
HasPlate(loc) == loc # "none"

InitCommon ==
    /\ registry = {}
    /\ accessLog = <<>>
    /\ detections = <<>>
    /\ ledger = LedgerMissing
    /\ clock = 0
    /\ initial_mtime = 0
    /\ last_log_time = NoLogTimes
    /\ pending = 0
    /\ outcome = NoOutcome
    /\ raised = "none"
    /\ exitStatus = "none"
    /\ ret = NoRet
    /\ addCalls = <<>>
    /\ logBase = 0
    /\ called = NoCalls
    /\ held = {}
    /\ inflight = [w \in Writers |-> Idle]

\* Before the first run of main(): empty tables, no ledger, no gps_state.json.
Init ==
    /\ InitCommon
    /\ pc = "off"
    /\ gps = GpsMissing /\ gpsMtime = 0

\* A client of ANPRDatabase on a fresh database (the module's self-test).
InitDb ==
    /\ InitCommon
    /\ pc = "api"
    /\ gps = GpsMissing /\ gpsMtime = 0

\* -------------------------------------------------------------- main(): run
\* main() is started: the location server is spawned (a failure returns), and
\* initial_mtime is taken from gps_state.json if it exists.
StartProcess(nodeOk) ==
    /\ pc = "off"
    /\ raised' = "none"
    /\ logBase' = Len(accessLog)
    /\ outcome' = NoOutcome
    /\ called' = NoCalls
    /\ IF nodeOk
       THEN /\ pc' = "waiting"
            /\ exitStatus' = "none"
            /\ initial_mtime' = IF gps.state # "missing" THEN gpsMtime ELSE 0
            /\ held' = {"node_process"}
       ELSE /\ pc' = "off"
            /\ exitStatus' = "0"
            /\ held' = {}
            /\ UNCHANGED initial_mtime
    /\ UNCHANGED inflight
    /\ UNCHANGED <<dbVars, gps, gpsMtime, clock, last_log_time, pending, ret,
                   addCalls>>

\* The polling loop ends once gps_state.json exists with a modification time
\* later than initial_mtime.
WaitLocation ==
    /\ pc = "waiting"
    /\ LocationReady(gps, gpsMtime, initial_mtime)
    /\ pc' = "opening"
    /\ UNCHANGED inflight
    /\ UNCHANGED <<dbVars, gps, gpsMtime, clock, initial_mtime,
                   last_log_time, pending, outcome, raised, exitStatus, ret,
                   addCalls, logBase,
                   called, held>>

\* The database is opened, the two vehicles are registered, the camera is
\* opened (a failure returns) and the loop's locals are initialised.
OpenCamera(cameraOk) ==
    /\ pc = "opening"
    /\ registry' = AddVehicleIn(AddVehicleIn(registry, PlateAdmin,
                                             "Admin User").reg,
                                PlateOther, "other user").reg
    /\ IF cameraOk
       THEN /\ pc' = "loop"
            /\ last_log_time' = FreshLogTimes(last_log_time)
            /\ held' = held \cup {"db", "cap"}
            /\ UNCHANGED exitStatus
       ELSE /\ pc' = "off"
            /\ exitStatus' = "0"
            /\ held' = (held \cup {"db"}) \ {"node_process"}
            /\ UNCHANGED last_log_time
    /\ pending' = 0
    /\ UNCHANGED inflight
    /\ UNCHANGED <<accessLog, detections, ledger, gps, gpsMtime, clock,
                   initial_mtime, outcome, raised, ret, addCalls,
                   logBase, called>>

\* ------------------------------------------------------- main(): frame loop
\* cap.read() fails: the loop is left and the finally block runs; else the
\* frame's vehicles are detected, none when detect_vehicles raises.
ReadFrame(frameOk, detectRaises, n) ==
    /\ pc = "loop"
    /\ IF ~frameOk
       THEN /\ pc' = "off"
            /\ exitStatus' = "0"
            /\ pending' = 0
            /\ held' = Finally(held)
       ELSE /\ pc' = "frame"
            /\ pending' = IF detectRaises THEN 0 ELSE n
            /\ UNCHANGED <<exitStatus, held>>
    /\ UNCHANGED inflight
    /\ UNCHANGED <<dbVars, gps, gpsMtime, clock, initial_mtime,
                   last_log_time, outcome, raised, ret, addCalls, logBase,
                   called>>

\* A mutant of ShouldLog: the window is closed one second early.
ShouldLogEarly(times, text, now) ==
    IF text \notin DOMAIN times THEN TRUE
    ELSE now - times[text] >= LOG_COOLDOWN

\* text not in last_log_time or (current_time - last_log_time[text] > LOG_COOLDOWN)
ShouldLog(times, text, now) ==
    IF text \notin DOMAIN times THEN TRUE
    ELSE now - times[text] > LOG_COOLDOWN

\* A mutant of MarkLogged: the instant of the log is not recorded.
MarkLoggedNot(times, text, now) == times

\* last_log_time[text] = current_time
MarkLogged(times, text, now) ==
    [p \in DOMAIN times \cup {text} |-> IF p = text THEN now ELSE times[p]]

\* `if text and conf > 0.3'
Validated(r) == r.text # EmptyStr /\ r.conf > OcrConfThreshold

\* An exception leaves the loop: only KeyboardInterrupt is handled, so the
\* finally block runs and main() ends with the exception.
Crash(exc, st, r) ==
    /\ pc' = "off"
    /\ raised' = exc
    /\ exitStatus' = "1"
    /\ pending' = 0
    /\ outcome' = [state |-> st, text |-> r.text]
    /\ held' = Finally(held)

\* The body of the for loop ended for this vehicle in state st.
Done(st, r) ==
    /\ outcome' = [state |-> st, text |-> r.text]
    /\ pending' = pending - 1
    /\ UNCHANGED <<pc, raised, exitStatus, held>>

\* One iteration of `for (v_box, v_conf, v_cls) in vehicles': localisation,
\* OCR, authorisation, cooldown and logging of one vehicle.
ProcessVehicle(loc, ocrRaises, r, fail) ==
    /\ pc = "frame"
    /\ pending > 0
    /\ Len(accessLog) < MaxRows
    \* a write failure is an input of the logging branch only
    /\ IF fail = "none" THEN TRUE
       ELSE IF ~(loc = "ok" /\ ~ocrRaises /\ Validated(r)) THEN FALSE
       ELSE IF ~IsAuthorizedIn(registry, r.text)[1] THEN FALSE
       ELSE ShouldLog(last_log_time, r.text, clock)
    /\ LET none == NoReading
           auth == IsAuthorizedIn(registry, r.text)
           w    == LogEntry(accessLog, ledger, registry, gps, r.text, r.conf,
                            clock, fail)
       IN  IF loc = "raise"
           THEN /\ Crash("cv2.error", "DETECTED", none)
                /\ UNCHANGED <<accessLog, ledger, last_log_time>>
           ELSE IF ~HasPlate(loc)
           THEN /\ Done("NO_PLATE", none)
                /\ UNCHANGED <<accessLog, ledger, last_log_time>>
           ELSE IF loc = "small"
           THEN /\ Done("SKIPPED", none)
                /\ UNCHANGED <<accessLog, ledger, last_log_time>>
           ELSE IF ocrRaises
           THEN /\ Crash("OcrError", "DETECTED", none)
                /\ UNCHANGED <<accessLog, ledger, last_log_time>>
           ELSE IF ~Validated(r)
           THEN /\ Done("SKIPPED", r)
                /\ UNCHANGED <<accessLog, ledger, last_log_time>>
           ELSE IF ~auth[1]
           THEN /\ Done("DENIED", r)
                /\ UNCHANGED <<accessLog, ledger, last_log_time>>
           ELSE IF ~ShouldLog(last_log_time, r.text, clock)
           THEN /\ Done("COOLDOWN_BLOCKED", r)
                /\ UNCHANGED <<accessLog, ledger, last_log_time>>
           ELSE /\ accessLog' = w.accessLog
                /\ ledger' = w.ledger
                /\ IF w.raised # "none"
                   THEN /\ Crash(w.raised, "LOGGED", r)
                        /\ UNCHANGED last_log_time
                   ELSE /\ Done("LOGGED", r)
                        /\ last_log_time' = MarkLogged(last_log_time, r.text,
                                                       clock)
    /\ called' = [detect_plate |-> loc,
                  extract_text |-> IF loc = "raise" \/ ~HasPlate(loc) THEN FALSE
                                   ELSE loc # "small",
                  is_authorized |-> IF loc = "raise" \/ ~HasPlate(loc) THEN FALSE
                                    ELSE IF loc = "small" \/ ocrRaises THEN FALSE
                                    ELSE Validated(r)]
    /\ registry' = IF called'.is_authorized
                   THEN RegistryAfterLookup(registry, r.text)
                   ELSE registry
    /\ UNCHANGED inflight
    /\ UNCHANGED <<detections, gps, gpsMtime, clock, initial_mtime,
                   ret, addCalls, logBase>>

\* The frame is shown; a closed window or the 'q' key leaves the loop.
ShowFrame(userExit) ==
    /\ pc = "frame"
    /\ pending = 0
    /\ IF userExit
       THEN pc' = "off" /\ exitStatus' = "0"
       ELSE pc' = "loop" /\ UNCHANGED exitStatus
    /\ outcome' = NoOutcome
    /\ called' = NoCalls
    /\ held' = IF userExit THEN Finally(held) ELSE held
    /\ UNCHANGED inflight
    /\ UNCHANGED <<dbVars, gps, gpsMtime, clock, initial_mtime,
                   last_log_time, pending, raised, ret, addCalls, logBase>>

\* Ctrl-C inside the loop: caught, the finally block runs, main() returns.
Interrupt ==
    /\ pc \in {"loop", "frame"}
    /\ pc' = "off"
    /\ exitStatus' = "0"
    /\ pending' = 0
    /\ held' = Finally(held)
    /\ UNCHANGED inflight
    /\ UNCHANGED <<dbVars, gps, gpsMtime, clock, initial_mtime,
                   last_log_time, outcome, raised, ret, addCalls, logBase,
                   called>>

\* -------------------------------------------------------------- environment
\* Time passes between frames.
Tick ==
    /\ pc = "loop"
    /\ \E t \in FrameInstants : t > clock /\ clock' = t
    /\ UNCHANGED inflight
    /\ UNCHANGED <<dbVars, gps, gpsMtime, pc, initial_mtime,
                   last_log_time, pending, outcome, raised, exitStatus, ret,
                   addCalls, logBase,
                   called, held>>

\* The location server rewrites gps_state.json, or the file is removed.
LocationWrite(g) ==
    /\ pc # "api"
    /\ gpsMtime < MaxGpsWrites
    /\ gps' = g
    /\ gpsMtime' = gpsMtime + 1
    /\ UNCHANGED inflight
    /\ UNCHANGED <<dbVars, clock, pc, initial_mtime, last_log_time,
                   pending, outcome, raised, exitStatus, ret, addCalls,
                   logBase,
                   called, held>>

Next ==
    \/ \E nodeOk \in BOOLEAN : StartProcess(nodeOk)
    \/ WaitLocation
    \/ \E cameraOk \in BOOLEAN : OpenCamera(cameraOk)
    \/ \E frameOk, detectRaises \in BOOLEAN, n \in 0..MaxVehicles :
          ReadFrame(frameOk, detectRaises, n)
    \/ \E loc \in PlateOutcomes \ {"ok"} :
          ProcessVehicle(loc, FALSE, NoReading, "none")
    \/ ProcessVehicle("ok", TRUE, NoReading, "none")
    \/ \E r \in OcrReadings, fail \in WriteFailures :
          ProcessVehicle("ok", FALSE, r, fail)
    \/ \E userExit \in BOOLEAN : ShowFrame(userExit)
    \/ Interrupt
    \/ Tick
    \/ \E g \in GpsSamples \cup {GpsMalformed, GpsMissing} : LocationWrite(g)

Spec == Init /\ [][Next]_vars

\* The runs of main() in which the INSERT, its commit and the writes of
\* vehicles.db.json all succeed.
NextNoFail ==
    \/ \E nodeOk \in BOOLEAN : StartProcess(nodeOk)
    \/ WaitLocation
    \/ \E cameraOk \in BOOLEAN : OpenCamera(cameraOk)
    \/ \E frameOk, detectRaises \in BOOLEAN, n \in 0..MaxVehicles :
          ReadFrame(frameOk, detectRaises, n)
    \/ \E loc \in PlateOutcomes \ {"ok"} :
          ProcessVehicle(loc, FALSE, NoReading, "none")
    \/ ProcessVehicle("ok", TRUE, NoReading, "none")
    \/ \E r \in OcrReadings : ProcessVehicle("ok", FALSE, r, "none")
    \/ \E userExit \in BOOLEAN : ShowFrame(userExit)
    \/ Interrupt
    \/ Tick
    \/ \E g \in GpsSamples \cup {GpsMalformed, GpsMissing} : LocationWrite(g)

SpecNoFail == Init /\ [][NextNoFail]_vars

\* ------------------------------------------------- a client of ANPRDatabase
\* The calls made so far that write to the database.
Writes == Len(addCalls) + Len(detections) + Len(accessLog)

\* db.add_authorized_vehicle(plate, owner)
DbAdd(plate, owner) ==
    /\ pc = "api"
    /\ Writes < MaxCalls
    /\ LET a == AddVehicleIn(registry, plate, owner)
       IN  /\ registry' = a.reg
           /\ ret' = [op |-> "add_authorized_vehicle", plate |-> plate,
                      owner |-> owner, val |-> <<a.ok>>]
    /\ addCalls' = Append(addCalls, [plate |-> plate, owner |-> owner])
    /\ UNCHANGED inflight
    /\ UNCHANGED <<accessLog, detections, ledger, gps, gpsMtime, clock, pc,
                   initial_mtime, last_log_time, pending, outcome,
                   raised, exitStatus, logBase,
                   called, held>>

\* db.is_authorized(plate)
DbIsAuthorized(plate) ==
    /\ pc = "api"
    /\ ret' = [op |-> "is_authorized", plate |-> plate, owner |-> "",
               val |-> IsAuthorizedIn(registry, plate)]
    /\ registry' = RegistryAfterLookup(registry, plate)
    /\ UNCHANGED inflight
    /\ UNCHANGED <<accessLog, detections, ledger, gps, gpsMtime, clock, pc,
                   initial_mtime,
                   last_log_time, pending, outcome, raised, exitStatus,
                   addCalls, logBase,
                   called, held>>

\* db.log_detection(plate, confidence, is_authorized)
DbLogDetection(plate, confidence, is_authorized) ==
    /\ pc = "api"
    /\ Writes < MaxCalls
    /\ detections' = Append(detections,
                            DetectionRow(plate, confidence, is_authorized, clock))
    /\ ret' = [op |-> "log_detection", plate |-> plate, owner |-> "",
               val |-> <<>>]
    /\ UNCHANGED inflight
    /\ UNCHANGED <<registry, accessLog, ledger, gps, gpsMtime, clock, pc,
                   initial_mtime, last_log_time, pending, outcome,
                   raised, exitStatus, addCalls, logBase,
                   called, held>>

\* db.log_entry(plate): location and confidence take their defaults.
DbLogEntry(plate, fail) ==
    /\ pc = "api"
    /\ Writes < MaxCalls
    /\ LET w == LogEntry(accessLog, ledger, registry, gps, plate, 0, clock, fail)
       IN  /\ accessLog' = w.accessLog
           /\ ledger' = w.ledger
           /\ raised' = w.raised
    /\ ret' = [op |-> "log_entry", plate |-> plate, owner |-> "", val |-> <<>>]
    /\ UNCHANGED inflight
    /\ UNCHANGED <<registry, detections, gps, gpsMtime, clock, pc, initial_mtime, last_log_time, pending, outcome, exitStatus,
                   addCalls, logBase,
                   called, held>>

NextDb ==
    \/ \E plate \in ClientPlates, owner \in ClientOwners : DbAdd(plate, owner)
    \/ \E plate \in ClientPlates : DbIsAuthorized(plate)
    \/ \E plate \in ClientPlates, is_authorized \in BOOLEAN :
          DbLogDetection(plate, 4, is_authorized)
    \/ \E plate \in ClientPlates, fail \in {"none", "ledger_dump"} :
          DbLogEntry(plate, fail)

SpecDb == InitDb /\ [][NextDb]_vars

\* ------------------------------------------- the ledger and its other users
\* The processes of this section run on one data directory: each is inside
\* log_entry or between two calls; the ledger is also edited from outside
\* (its vehicleName is written as "" and filled in by someone else) and read
\* by main() for the vehicle name it prints.

\* The sentinel of the vehicle-name lookup.
UnknownVehicle == "Unknown Vehicle"

\* What an editor of the ledger does to a profile's vehicleName: removes the
\* key, or sets it.
VehicleNames == {None, Some(""), Some("Swift")}
SetName(v_obj, name) ==
    IF name = None
    THEN [k \in DOMAIN v_obj \ {"vehicleName"} |-> v_obj[k]]
    ELSE [k \in DOMAIN v_obj \cup {"vehicleName"} |->
            IF k = "vehicleName" THEN name[1] ELSE v_obj[k]]

\* A mutant of NameOf: the stored name is used as it is.
NameOfStored(v_obj) ==
    IF "vehicleName" \in DOMAIN v_obj THEN v_obj.vehicleName
    ELSE UnknownVehicle

\* v_obj.get("vehicleName", "Unknown Vehicle") or "Unknown Vehicle"
NameOf(v_obj) ==
    LET got == IF "vehicleName" \in DOMAIN v_obj THEN v_obj.vehicleName
               ELSE UnknownVehicle
    IN  IF got = "" THEN UnknownVehicle ELSE got

\* `for v_obj in v_data' from item i on: the name of the first profile of the
\* plate, the value veh_name had before the loop if there is none.
RECURSIVE NameLoop(_, _, _)
NameLoop(v_data, i, text) ==
    IF i > Len(v_data) THEN UnknownVehicle
    ELSE IF v_data[i].numberPlate = text THEN NameOf(v_data[i])
    ELSE NameLoop(v_data, i + 1, text)

\* The vehicle-name lookup of main(): the sentinel when the file does not
\* exist or json.load raises (the bare except), else the loop's result.
DisplayName(led, text) ==
    IF led.state = "missing" THEN UnknownVehicle
    ELSE IF led.state = "corrupt" THEN UnknownVehicle
    ELSE NameLoop(led.data, 1, text)

\* Two vehicles are registered, gps_state.json holds a sample, nothing is
\* logged yet and no process is inside log_entry.
InitLedger ==
    /\ registry = AddVehicleIn(AddVehicleIn({}, PlateAdmin, "Admin User").reg,
                               PlateOther, "other user").reg
    /\ accessLog = <<>>
    /\ detections = <<>>
    /\ ledger = LedgerMissing
    /\ gps = GpsSample(129, 776) /\ gpsMtime = 1
    /\ clock = 0
    /\ pc = "ledger"
    /\ initial_mtime = 0
    /\ last_log_time = NoLogTimes
    /\ pending = 0
    /\ outcome = NoOutcome
    /\ raised = "none"
    /\ exitStatus = "none"
    /\ ret = NoRet
    /\ addCalls = <<>>
    /\ logBase = 0
    /\ called = NoCalls
    /\ held = {}
    /\ inflight = [w \in Writers |-> Idle]

\* Process w calls log_entry(plate): the row is inserted and committed, and
\* _log_to_json loads the ledger into its local `data'.
LogEntryLoad(w, plate) ==
    /\ pc = "ledger"
    /\ inflight[w].state = "idle"
    /\ Len(accessLog) < MaxRows
    /\ accessLog' = LogEntry(accessLog, ledger, registry, gps, plate, 0,
                             clock, "ledger_open").accessLog
    /\ inflight' = [inflight EXCEPT ![w] =
                      [state |-> "loaded", data |-> LoadLedger(ledger),
                       plate_number |-> Normalize(plate),
                       timestamp |-> clock]]
    /\ ret' = [op |-> "log_entry", plate |-> plate, owner |-> "",
               val |-> <<>>]
    /\ UNCHANGED <<registry, detections, ledger, gps, gpsMtime, clock, pc,
                   initial_mtime, last_log_time, pending, outcome, raised,
                   exitStatus, addCalls, logBase, called, held>>

\* Process w ends _log_to_json: its `data', with the sample added, replaces
\* the file; a failing json.dump leaves the file truncated.
LogEntryDump(w, fail) ==
    /\ pc = "ledger"
    /\ inflight[w].state = "loaded"
    /\ ledger' = IF fail = "ledger_dump" THEN LedgerCorrupt
                 ELSE Upsert(LedgerOf(inflight[w].data), registry, gps,
                             inflight[w].plate_number, inflight[w].timestamp)
    /\ inflight' = [inflight EXCEPT ![w] = Idle]
    /\ ret' = [op |-> "log_entry", plate |-> inflight[w].plate_number,
               owner |-> "", val |-> <<>>]
    /\ UNCHANGED <<registry, accessLog, detections, gps, gpsMtime, clock, pc,
                   initial_mtime, last_log_time, pending, outcome, raised,
                   exitStatus, addCalls, logBase, called, held>>

\* The vehicleName of the ledger's i-th profile is edited from outside.
LedgerEdit(i, name) ==
    /\ pc = "ledger"
    /\ ledger.state = "ok"
    /\ i <= Len(ledger.data)
    /\ ledger' = LedgerOf([ledger.data EXCEPT ![i] = SetName(@, name)])
    /\ ledger' # ledger
    /\ ret' = NoRet
    /\ UNCHANGED <<registry, accessLog, detections, gps, gpsMtime, clock, pc,
                   initial_mtime, last_log_time, pending, outcome, raised,
                   exitStatus, addCalls, logBase, called, held, inflight>>

\* main() looks up the vehicle name of `text' for the line it prints.
NameLookup(text) ==
    /\ pc = "ledger"
    /\ ret' = [op |-> "veh_name", plate |-> text, owner |-> "",
               val |-> <<DisplayName(ledger, text)>>]
    /\ UNCHANGED <<dbVars, gps, gpsMtime, clock, pc, initial_mtime,
                   last_log_time, pending, outcome, raised, exitStatus,
                   addCalls, logBase, called, held, inflight>>

NextLedger ==
    \/ \E w \in Writers, plate \in {PlateAdmin, PlateOther} :
          LogEntryLoad(w, plate)
    \/ \E w \in Writers, fail \in {"none", "ledger_dump"} :
          LogEntryDump(w, fail)
    \/ \E i \in 1..MaxRows, name \in VehicleNames : LedgerEdit(i, name)
    \/ \E text \in {PlateAdmin, PlateOther, PlateStranger} : NameLookup(text)

SpecLedger == InitLedger /\ [][NextLedger]_vars

\* ------------------------------------------------------------- the claims
\* A step of ProcessVehicle: one vehicle of the frame was processed, to the
\* end of the loop body or to an exception.
VehicleStep ==
    /\ pc = "frame"
    /\ pending > 0
    /\ \/ pc' = "frame" /\ pending' = pending - 1
       \/ raised = "none" /\ raised' # "none"

\* The rows of access_logs written for plate p by the current run, by index.
RunRows(log, p) ==
    {i \in (logBase + 1)..Len(log) : log[i].plate_number = p}

MaxOf(S) == CHOOSE i \in S : \A j \in S : j <= i
MinOf(S) == CHOOSE i \in S : \A j \in S : i <= j

\* C1: an authorized detection of a plate at time `now' is logged iff the
\* plate has no accepted log in this run or now minus the time of its last
\* accepted log exceeds the cooldown window; a logged detection marks the
\* plate at `now' and a blocked one changes neither the map nor the log.
C1_CooldownGate ==
    [][ (VehicleStep /\ outcome'.state \in {"COOLDOWN_BLOCKED", "LOGGED"}) =>
          LET p    == outcome'.text
              rows == RunRows(accessLog, p)
              pass == IF rows = {} THEN TRUE
                      ELSE clock - accessLog[MaxOf(rows)].timestamp > LOG_COOLDOWN
          IN  /\ (outcome'.state = "LOGGED") <=> pass
              /\ (outcome'.state = "LOGGED" /\ raised' = "none") =>
                    /\ p \in DOMAIN last_log_time'
                    /\ last_log_time'[p] = clock
                    /\ Len(accessLog') = Len(accessLog) + 1
              /\ outcome'.state = "COOLDOWN_BLOCKED" =>
                    /\ last_log_time' = last_log_time
                    /\ accessLog' = accessLog
      ]_vars

\* C1 witness: a plate logged at t=0 is detected again at t=9 and blocked,
\* its last-logged instant still 0 and its one row still the only one.
C1_Witness ==
    /\ outcome = [state |-> "COOLDOWN_BLOCKED", text |-> PlateAdmin]
    /\ clock = 9
    /\ PlateAdmin \in DOMAIN last_log_time
    /\ last_log_time[PlateAdmin] = 0
    /\ Len(accessLog) = 1
    /\ accessLog[1].timestamp = 0

\* No two rows of one plate among the rows with index in I have timestamps
\* within one window of length LOG_COOLDOWN.
OnePerWindow(I) ==
    \A i, j \in I :
        (i < j /\ accessLog[i].plate_number = accessLog[j].plate_number) =>
            accessLog[j].timestamp - accessLog[i].timestamp > LOG_COOLDOWN

\* C2 as stated: over the whole access log, at most one row of a plate in
\* any window of length W.
C2_OnePerWindowEver == OnePerWindow(1..Len(accessLog))

\* C2 as amended: among the rows written by one run of the process, at most
\* one row of a plate in any window of length W.
C2_OnePerWindowPerRun == OnePerWindow((logBase + 1)..Len(accessLog))

\* C2 witness: one run has logged the same plate at t=0 and at t=11.
C2_Witness ==
    /\ logBase = 0
    /\ Len(accessLog) = 2
    /\ accessLog[1].plate_number = accessLog[2].plate_number
    /\ accessLog[1].timestamp = 0
    /\ accessLog[2].timestamp = 11

\* C3 as stated: every detection that reaches VALIDATED appends exactly one
\* row to all_detections.
C3_DetectionRecordWritten ==
    [][ (VehicleStep
         /\ outcome'.state \in {"DENIED", "COOLDOWN_BLOCKED", "LOGGED"}) =>
            Len(detections') = Len(detections) + 1 ]_vars

\* C4: the access log and the ledger change only in a detection whose outcome
\* is LOGGED and whose plate is a key of the registry, and the cooldown map
\* changes inside the loop only then; a DENIED or COOLDOWN_BLOCKED detection
\* leaves all three unchanged.
C4_OnlyLoggedWrites ==
    [][ /\ (accessLog' # accessLog \/ ledger' # ledger
            \/ (pc = "frame" /\ last_log_time' # last_log_time)) =>
               /\ VehicleStep
               /\ outcome'.state = "LOGGED"
               /\ \E row \in registry :
                     row.plate_number = Normalize(outcome'.text)
        /\ (VehicleStep /\ outcome'.state \in {"DENIED", "COOLDOWN_BLOCKED"}) =>
               UNCHANGED <<accessLog, ledger, last_log_time>>
      ]_vars

\* C4 witness: an unregistered plate was denied after another plate had been
\* logged; the log still holds that one row.
C4_Witness ==
    /\ outcome = [state |-> "DENIED", text |-> PlateStranger]
    /\ Len(accessLog) = 1
    /\ ledger.state = "ok"
    /\ Len(ledger.data) = 1

\* C5 as stated: a detection that passed the cooldown check is marked at that
\* instant and the loop goes on, also when the durable write failed.
C5_MarkedDespiteWriteFailure ==
    [][ (VehicleStep /\ outcome'.state = "LOGGED") =>
            /\ pc' = "frame"
            /\ outcome'.text \in DOMAIN last_log_time'
            /\ last_log_time'[outcome'.text] = clock ]_vars

\* C6 as stated: when the access-event append of a logged detection fails,
\* the ledger upsert is still performed, and no write failure ends the loop.
C6_IndependentWritePaths ==
    [][ (VehicleStep /\ outcome'.state = "LOGGED") =>
            /\ Len(accessLog') = Len(accessLog) =>
                  ledger' = Upsert(ledger, registry, gps,
                                   Normalize(outcome'.text), clock)
            /\ raised' = "none" ]_vars

\* C7 as stated: the frame loop is never left because detection, plate
\* localisation or OCR failed.
C7_LoopSurvivesRecognition ==
    [][ (pc \in {"loop", "frame"} /\ pc' = "off") =>
            raised' \notin {"cv2.error", "OcrError"} ]_vars

\* The plates of the ledger's profiles are pairwise different.
UniqueProfiles(led) ==
    \A i, j \in 1..Len(led.data) :
        led.data[i].numberPlate = led.data[j].numberPlate => i = j

\* C8: the ledger never holds two profiles of one plate; a logged event whose
\* writes succeed appends one sample to the plate's profile if the ledger
\* has one, leaving the number of profiles unchanged, and otherwise adds one
\* profile holding one sample.
C8_OneProfilePerPlate ==
    /\ UniqueProfiles(ledger)
    /\ [][ /\ UniqueProfiles(ledger')
           /\ (VehicleStep /\ outcome'.state = "LOGGED" /\ raised' = "none") =>
                LET p    == Normalize(outcome'.text)
                    old  == LoadLedger(ledger)
                    new  == ledger'.data
                    at   == {i \in 1..Len(old) : old[i].numberPlate = p}
                IN  /\ ledger'.state = "ok"
                    /\ IF at # {}
                       THEN /\ Len(new) = Len(old)
                            /\ \A i \in at :
                                  /\ new[i].numberPlate = p
                                  /\ Len(new[i].locations)
                                       = Len(old[i].locations) + 1
                                  /\ SubSeq(new[i].locations, 1,
                                            Len(old[i].locations))
                                       = old[i].locations
                            /\ \A i \in (1..Len(old)) \ at : new[i] = old[i]
                       ELSE /\ Len(new) = Len(old) + 1
                            /\ SubSeq(new, 1, Len(old)) = old
                            /\ new[Len(new)].numberPlate = p
                            /\ Len(new[Len(new)].locations) = 1
         ]_vars

\* C8 witness: the same plate was logged by two runs of the process and the
\* ledger holds one profile with two samples.
C8_Witness ==
    /\ logBase = 1
    /\ Len(accessLog) = 2
    /\ accessLog[1].plate_number = accessLog[2].plate_number
    /\ ledger.state = "ok"
    /\ Len(ledger.data) = 1
    /\ ledger.data[1].numberPlate = accessLog[1].plate_number
    /\ Len(ledger.data[1].locations) = 2

\* C9: add_authorized_vehicle on a plate whose normalised form is a key of
\* the registry returns False and leaves the registry as it was; on any other
\* plate it adds the normalised key with the given owner and returns True.
C9_AddVehicle ==
    [][ (ret'.op = "add_authorized_vehicle"
         /\ Len(addCalls') = Len(addCalls) + 1) =>
          LET key == Normalize(ret'.plate)
              row == [plate_number |-> key, owner_name |-> ret'.owner]
          IN  IF \E r \in registry : r.plate_number = key
              THEN ret'.val = <<FALSE>> /\ registry' = registry
              ELSE ret'.val = <<TRUE>> /\ registry' = registry \cup {row}
      ]_vars

\* C9 witness: a registration under another owner was refused and the stored
\* owner is still the first one.
C9_Witness ==
    /\ ret.op = "add_authorized_vehicle"
    /\ ret.val = <<FALSE>>
    /\ ret.plate # Normalize(ret.plate)
    /\ \E r \in registry :
          r.plate_number = Normalize(ret.plate) /\ r.owner_name # ret.owner

\* The add_authorized_vehicle calls made so far for the key of plate.
CallsFor(plate) ==
    {i \in 1..Len(addCalls) : Normalize(addCalls[i].plate) = Normalize(plate)}

\* What is_authorized(plate) has to return after the calls made so far.
ExpectedAnswer(plate) ==
    IF CallsFor(plate) = {} THEN <<FALSE, None>>
    ELSE <<TRUE, Some(addCalls[MinOf(CallsFor(plate))].owner)>>

\* C10: is_authorized(plate) returns (True, owner) iff the normalised plate is
\* the normalised plate of an earlier add_authorized_vehicle call, owner being
\* that of the first such call, and (False, None) otherwise; the call leaves
\* the registry unchanged.
C10_IsAuthorized ==
    [][ ret'.op = "is_authorized" =>
          /\ ret'.val = ExpectedAnswer(ret'.plate)
          /\ registry' = registry ]_vars

\* C10 witness: a lookup with a plate in lower case and with a space returned
\* the owner of the first of two registrations of its key.
C10_Witness ==
    /\ ret.op = "is_authorized"
    /\ ret.plate # Normalize(ret.plate)
    /\ Cardinality(CallsFor(ret.plate)) = 2
    /\ addCalls[MinOf(CallsFor(ret.plate))].owner
         # addCalls[MaxOf(CallsFor(ret.plate))].owner
    /\ ret.val = <<TRUE, Some(addCalls[MinOf(CallsFor(ret.plate))].owner)>>

\* Whitespace as str.isspace() has it, and the normalised form of a plate:
\* no whitespace and no lower-case letter.
WhitespaceChars == {" ", "\t", "\n"}
IsNormalized(s) ==
    \A i \in 1..Len(s) :
        s[i] \notin WhitespaceChars /\ s[i] \notin DOMAIN LowerToUpper

C12_NoPlateNoRecord ==
    [][ (VehicleStep /\ called'.detect_plate = "none") =>
            /\ ~called'.extract_text
            /\ ~called'.is_authorized
            /\ UNCHANGED <<registry, accessLog, detections, ledger,
                           last_log_time>>
            /\ pc' = "frame"
            /\ pending' = pending - 1
            /\ raised' = "none" ]_vars

\* C12 witness: after one plate was logged, a vehicle without a plate region
\* was processed; the log still holds the one row.
C12_Witness ==
    /\ called.detect_plate = "none"
    /\ outcome.state = "NO_PLATE"
    /\ pc = "frame"
    /\ Len(accessLog) = 1
    /\ DOMAIN last_log_time # {}

LastSample(led, p) ==
    LET locs == led.data[FindProfile(led.data, p)].locations
    IN  locs[Len(locs)]

\* The number of samples of the profile of plate p in the ledger led.
SampleCount(led, p) ==
    LET data == LoadLedger(led)
    IN  IF FindProfile(data, p) = 0 THEN 0
        ELSE Len(data[FindProfile(data, p)].locations)

\* C14: when gps_state.json is missing or is not a JSON object with lat and
\* long, a logged detection whose writes succeed still appends its row to the
\* access log and one sample to the plate's profile, with "" for lat and
\* long, and the loop goes on.
C14_AbsentLocationStillLogs ==
    [][ (VehicleStep /\ outcome'.state = "LOGGED" /\ raised' = "none"
         /\ gps.state # "ok") =>
            LET p == Normalize(outcome'.text)
            IN  /\ pc' = "frame"
                /\ Len(accessLog') = Len(accessLog) + 1
                /\ ledger'.state = "ok"
                /\ SampleCount(ledger', p) = SampleCount(ledger, p) + 1
                /\ LastSample(ledger', p).lat = EmptyStr
                /\ LastSample(ledger', p).long = EmptyStr ]_vars

\* C14 witness: a plate was logged while gps_state.json was gone, after the
\* startup gate had seen it written.
C14_Witness ==
    /\ outcome.state = "LOGGED"
    /\ pc = "frame"
    /\ gps.state = "missing"
    /\ ledger.state = "ok"
    /\ LastSample(ledger, Normalize(outcome.text)).lat = EmptyStr

\* A profile with a name to show.
HasName(v_obj) == "vehicleName" \in DOMAIN v_obj /\ v_obj.vehicleName # ""

\* Everything the ledger old held is in the ledger new: every profile, with
\* its name and its samples.
Preserved(old, new) ==
    \A i \in 1..Len(old) : \E j \in 1..Len(new) :
        /\ new[j].numberPlate = old[i].numberPlate
        /\ DOMAIN new[j] = DOMAIN old[i]
        /\ HasName(old[i]) => new[j].vehicleName = old[i].vehicleName
        /\ Len(new[j].locations) >= Len(old[i].locations)
        /\ SubSeq(new[j].locations, 1, Len(old[i].locations))
             = old[i].locations

\* C15 as stated: the upsert is atomic with respect to the other writers of
\* the ledger; whenever a process writes the ledger back, what the others
\* wrote since it read the file is still there.
C15_NoLostUpdate ==
    [][ (\E w \in Writers : /\ inflight[w].state = "loaded"
                            /\ inflight'[w].state = "idle"
                            /\ ledger.state = "ok"
                            /\ ledger'.state = "ok") =>
            Preserved(ledger.data, ledger'.data) ]_vars

\* C17: the vehicle-name lookup gives the name stored in the profile of the
\* plate when the ledger is readable, has such a profile and its name is not
\* empty, and "Unknown Vehicle" in every other case; it raises nothing and
\* writes nothing.
C17_DisplayName ==
    [][ ret'.op = "veh_name" =>
          LET text == ret'.plate
              at   == {i \in 1..Len(LoadLedger(ledger)) :
                          ledger.data[i].numberPlate = text}
          IN  /\ IF ledger.state = "ok" /\ at # {}
                 THEN IF HasName(ledger.data[MinOf(at)])
                      THEN ret'.val = <<ledger.data[MinOf(at)].vehicleName>>
                      ELSE ret'.val = <<UnknownVehicle>>
                 ELSE ret'.val = <<UnknownVehicle>>
              /\ raised' = raised
              /\ UNCHANGED dbVars ]_vars

\* C17 witness: the lookup returned the name someone gave to a logged plate.
C17_Witness ==
    /\ ret.op = "veh_name"
    /\ ret.val = <<"Swift">>
    /\ ledger.state = "ok"
    /\ \E i \in 1..Len(ledger.data) :
          /\ ledger.data[i].numberPlate = ret.plate
          /\ HasName(ledger.data[i])

\* C16 as stated: a plate logged while gps_state.json holds (lat, long) gets
\* one row in the access log and one more sample in its profile, carrying
\* that lat and long; a profile created by it has the registered owner and
\* "" as vehicle name; a detection blocked by the cooldown adds neither.
C16_SampleCarriesLocation ==
    [][ /\ (VehicleStep /\ outcome'.state = "LOGGED" /\ raised' = "none"
            /\ gps.state = "ok") =>
               LET p == Normalize(outcome'.text)
                   i == FindProfile(LoadLedger(ledger'), p)
               IN  /\ Len(accessLog') = Len(accessLog) + 1
                   /\ ledger'.state = "ok"
                   /\ SampleCount(ledger', p) = SampleCount(ledger, p) + 1
                   /\ LastSample(ledger', p).lat = Str(gps.lat)
                   /\ LastSample(ledger', p).long = Str(gps.long)
                   /\ SampleCount(ledger, p) = 0 =>
                        /\ IsAuthorizedIn(registry, p)[2]
                             = Some(ledger'.data[i].ownerName)
                        /\ ledger'.data[i].vehicleName = ""
        /\ (VehicleStep /\ outcome'.state = "COOLDOWN_BLOCKED") =>
               UNCHANGED <<accessLog, ledger>>
      ]_vars

\* C18: the cooldown map is empty when a run enters its loop, whatever the
\* runs before it logged, so the first validated detection of a registered
\* plate in a run is logged; inside the loop the map changes only when a
\* detection is logged.
C18_CooldownEphemeral ==
    [][ /\ (pc = "opening" /\ pc' = "loop") => last_log_time' = NoLogTimes
        /\ (VehicleStep /\ called'.is_authorized
            /\ outcome'.state # "DENIED"
            /\ RunRows(accessLog, Normalize(outcome'.text)) = {}) =>
               outcome'.state = "LOGGED"
        /\ last_log_time' # last_log_time =>
               \/ pc = "opening"
               \/ VehicleStep /\ outcome'.state = "LOGGED"
      ]_vars

\* C18 witness: a second run has logged a plate less than a cooldown window
\* after the first run logged it.
C18_Witness ==
    /\ pc = "frame"
    /\ outcome.state = "LOGGED"
    /\ logBase = 1
    /\ Len(accessLog) = 2
    /\ accessLog[2].plate_number = accessLog[1].plate_number
    /\ accessLog[2].timestamp - accessLog[1].timestamp <= LOG_COOLDOWN
    /\ DOMAIN last_log_time = {accessLog[2].plate_number}

\* C19 as stated: when the camera cannot be opened the process ends with a
\* status other than zero; when the user closes the window or presses the
\* quit key it ends with status zero.
C19_ExitStatus ==
    [][ /\ (pc = "opening" /\ pc' = "off") => exitStatus' # "0"
        /\ (pc = "frame" /\ pc' = "off" /\ raised' = "none") =>
               exitStatus' = "0"
      ]_vars

\* C20: a failed cap.read() ends the loop with no vehicle of that frame
\* processed and nothing written; however the loop ends, the camera, the
\* database connection and the location server are released in that step;
\* frames are read and processed only while all three are held.
C20_ReleaseOnExit ==
    /\ pc \in {"loop", "frame"} => held = Resources
    /\ held # Resources => pending = 0
    /\ [][ /\ (pc \in {"loop", "frame"} /\ pc' = "off") => held' = {}
           /\ (pc = "loop" /\ pc' = "off") =>
                /\ pending' = 0
                /\ outcome' = outcome
                /\ UNCHANGED <<dbVars, last_log_time>>
         ]_vars

\* C20 witness: a run that logged a plate has left its loop between two
\* frames and holds nothing.
C20_Witness ==
    /\ pc = "off"
    /\ held = {}
    /\ raised = "none"
    /\ exitStatus = "0"
    /\ outcome = NoOutcome
    /\ Len(accessLog) > logBase

\* C21: rows of authorized_vehicles are created by add_authorized_vehicle
\* only: reading and processing frames, whatever is detected, read, denied,
\* blocked or logged, and leaving the loop in any way, changes neither the
\* keys of the registry nor their owners.
C21_RegistryOnlyByRegistration ==
    [][ (pc \in {"loop", "frame"}) => registry' = registry ]_vars

\* C21 witness: an unregistered plate was read and denied after a registered
\* one had been logged, and the registry holds the two registered rows.
C21_Witness ==
    /\ pc = "frame"
    /\ outcome = [state |-> "DENIED", text |-> PlateStranger]
    /\ called.is_authorized
    /\ Len(accessLog) = 1
    /\ registry = {[plate_number |-> PlateAdmin, owner_name |-> "Admin User"],
                   [plate_number |-> PlateOther, owner_name |-> "other user"]}

\* Two characters that are the same letter in either case, or the same
\* character.
SameLetter(a, b) == a = b \/ UpperChar(a) = b \/ UpperChar(b) = a

\* Two strings that differ only in letter case and in spaces: read from the
\* left, skipping the spaces of both.
RECURSIVE SameButCaseAndSpaces(_, _)
SameButCaseAndSpaces(p, q) ==
    IF p # <<>> /\ Head(p) = " " THEN SameButCaseAndSpaces(Tail(p), q)
    ELSE IF q # <<>> /\ Head(q) = " " THEN SameButCaseAndSpaces(p, Tail(q))
    ELSE IF p = <<>> \/ q = <<>> THEN p = <<>> /\ q = <<>>
    ELSE SameLetter(Head(p), Head(q))
         /\ SameButCaseAndSpaces(Tail(p), Tail(q))

\* C22: normalising a plate twice gives what normalising it once gives, two
\* plates that differ only in letter case and spaces have the same normal
\* form, and "ka01 ab1234" has the normal form "KA01AB1234"; for every plate
\* passed to a method of ANPRDatabase.
C22_NormalizeIdempotent ==
    /\ Normalize(<<"k","a","0","1"," ","a","b","1","2","3","4">>) = PlateAdmin
    /\ Normalize(Normalize(PlateAdmin)) = PlateAdmin
    /\ ret.op # "none" =>
          LET p == ret.plate
          IN  /\ Normalize(Normalize(p)) = Normalize(p)
              /\ \A q \in ClientPlates :
                    SameButCaseAndSpaces(p, q) => Normalize(q) = Normalize(p)

\* C22 witness: a plate in lower case and with a space was looked up and
\* found under the key registered with its upper-case form without space.
C22_Witness ==
    /\ ret.op = "is_authorized"
    /\ ret.val[1]
    /\ \E q \in ClientPlates :
          /\ q # ret.plate
          /\ q = Normalize(q)
          /\ SameButCaseAndSpaces(ret.plate, q)
          /\ Len(addCalls) = 1
          /\ addCalls[1].plate = q

\* The plates of the access log and of the ledger's profiles.
LoggedPlates ==
    {accessLog[i].plate_number : i \in 1..Len(accessLog)}
    \cup {ledger.data[i].numberPlate : i \in 1..Len(LoadLedger(ledger))}

\* C23: when no write fails, after any frames and restarts every plate has
\* as many rows in the access log as samples in its ledger profile, and it
\* has a profile iff it has a row.
C23_RowsMatchSamples ==
    /\ ledger.state # "corrupt"
    /\ \A p \in LoggedPlates :
          LET rows == {i \in 1..Len(accessLog) : accessLog[i].plate_number = p}
              at   == {i \in 1..Len(LoadLedger(ledger)) :
                          ledger.data[i].numberPlate = p}
          IN  /\ rows # {}
              /\ Cardinality(at) = 1
              /\ \A i \in at :
                    Len(ledger.data[i].locations) = Cardinality(rows)

\* C23 witness: two plates were logged, one row and one sample each.
C23_Witness ==
    /\ Len(accessLog) = 2
    /\ accessLog[1].plate_number # accessLog[2].plate_number
    /\ ledger.state = "ok"
    /\ Len(ledger.data) = 2
    /\ \A i \in 1..2 : Len(ledger.data[i].locations) = 1

\* C24: a completed upsert of plate p into a ledger that is valid JSON keeps
\* every profile in its place with its owner, name and plate, keeps every
\* sample in its place, and adds exactly one sample, at the end of the
\* profile of p, which is a new last profile if p had none; a ledger file
\* that is missing or not valid JSON is replaced by a ledger holding only the
\* profile of p with that one sample.
C24_UpsertOnlyGrows ==
    [][ (VehicleStep /\ outcome'.state = "LOGGED" /\ raised' = "none") =>
          LET p   == Normalize(outcome'.text)
              old == ledger.data
              new == ledger'.data
          IN  /\ ledger'.state = "ok"
              /\ IF ledger.state = "ok"
                 THEN /\ Len(new) \in {Len(old), Len(old) + 1}
                      /\ \A i \in 1..Len(old) :
                            /\ [new[i] EXCEPT !.locations = <<>>]
                                 = [old[i] EXCEPT !.locations = <<>>]
                            /\ SubSeq(new[i].locations, 1,
                                      Len(old[i].locations))
                                 = old[i].locations
                            /\ Len(new[i].locations)
                                 = Len(old[i].locations)
                                   + (IF old[i].numberPlate = p
                                      THEN 1 ELSE 0)
                      /\ Len(new) = Len(old) + 1 =>
                            /\ new[Len(new)].numberPlate = p
                            /\ Len(new[Len(new)].locations) = 1
                            /\ \A i \in 1..Len(old) : old[i].numberPlate # p
                      /\ Len(new) = Len(old) =>
                            \E i \in 1..Len(old) : old[i].numberPlate = p
                 ELSE /\ Len(new) = 1
                      /\ new[1].numberPlate = p
                      /\ Len(new[1].locations) = 1
      ]_vars

\* C24 witness: the ledger write of a first logged plate failed and left the
\* file truncated; a later run logged another plate and the ledger holds
\* that plate's profile only.
C24_Witness ==
    /\ outcome.state = "LOGGED"
    /\ pc = "frame"
    /\ Len(accessLog) = 2
    /\ accessLog[1].plate_number # accessLog[2].plate_number
    /\ ledger.state = "ok"
    /\ Len(ledger.data) = 1
    /\ ledger.data[1].numberPlate = accessLog[2].plate_number
    /\ Len(ledger.data[1].locations) = 1

====
